---- MODULE Spec2Model ----
(***************************************************************************)
(* Model of the password generator of Task-3.py: build_charset,            *)
(* generate_password, generate_many, try_copy_to_clipboard and main.       *)
(*                                                                         *)
(* A Python str is modelled as a sequence of one-character strings, a dict *)
(* as the sequence of its (key, value) items in insertion order, and every *)
(* call of secrets.choice / SystemRandom().shuffle as a nondeterministic   *)
(* choice over all the values the call can return.                         *)
(***************************************************************************)
EXTENDS Integers, Sequences, FiniteSets, TLC

(* ------------------------------ bounds --------------------------------- *)

\* Largest length passed to a direct call of generate_password.
MaxLength == 4

\* Largest --length / length of a batch (generate_many, main).
MaxBatchLength == 1

\* Largest count of a batch.
MaxCount == 2

\* Number of non-ambiguous characters of each pool kept in the model.
PoolSample == 1

(* ----------------------- module-level constants ------------------------ *)

AMBIGUOUS ==
    {"I", "l", "1", "O", "0", "`", "'", "\"", "/", ",", "\\", "|"}

LOWER ==
    << "a", "b", "c", "d", "e", "f", "g", "h", "i", "j", "k", "l", "m",
       "n", "o", "p", "q", "r", "s", "t", "u", "v", "w", "x", "y", "z" >>

UPPER ==
    << "A", "B", "C", "D", "E", "F", "G", "H", "I", "J", "K", "L", "M",
       "N", "O", "P", "Q", "R", "S", "T", "U", "V", "W", "X", "Y", "Z" >>

DIGITS ==
    << "0", "1", "2", "3", "4", "5", "6", "7", "8", "9" >>

SYMBOLS ==
    << "!", "@", "#", "$", "%", "^", "&", "*", "(", ")", "-", "_", "=",
       "+", "[", "]", "{", "}", ";", ":", ",", ".", "<", ">", "?", "/" >>

\* The characters of pool s the model draws from, in pool order: its first
\* PoolSample non-ambiguous characters and its first ambiguous character.
\* The code treats a character only by the pool it is in and by whether it
\* is in AMBIGUOUS, so every such class of a pool keeps a representative.
Sampled(s) ==
    LET rank(i) == Cardinality({j \in 1..i :
                        (s[j] \in AMBIGUOUS) <=> (s[i] \in AMBIGUOUS)})
        keep == {s[i] : i \in {j \in 1..Len(s) :
                        IF s[j] \in AMBIGUOUS THEN rank(j) <= 1
                                              ELSE rank(j) <= PoolSample}}
    IN  SelectSeq(s, LAMBDA ch : ch \in keep)

\* The category pools as shipped.
ShippedPools ==
    [lower |-> Sampled(LOWER), upper |-> Sampled(UPPER),
     digits |-> Sampled(DIGITS), symbols |-> Sampled(SYMBOLS)]

\* A customised program: DIGITS redefined to consist of ambiguous
\* characters only.
CustomPools ==
    [ShippedPools EXCEPT !.digits = << "0", "1" >>]

(* ------------------------------- state --------------------------------- *)

VARIABLES
    POOLS,          \* the module's LOWER/UPPER/DIGITS/SYMBOLS, read-only
    entry,          \* the function the run starts in
    args,           \* main: the parsed command line
    count,          \* generate_many: count
    kwargs,         \* generate_password: its arguments
    pc,             \* position in the code
    sets,           \* generate_password: sets
    categories,     \* generate_password: categories
    password_chars, \* generate_password: password_chars
    combined,       \* generate_password: combined
    remaining,      \* generate_password: remaining
    draws,          \* calls of the random source made by the current call
    gp_outcome,     \* how the latest generate_password call ended
    result,         \* the string the latest generate_password call returned
    passwords,      \* generate_many: the list under construction / returned
    raised,         \* exception that left the entry function uncaught
    stdout,         \* main: lines printed
    stderr,         \* main: error output
    copied,         \* main: text handed to the clipboard
    exit_status     \* main: process exit status, -1 while running

vars ==
    << POOLS, entry, args, count, kwargs, pc, sets, categories,
       password_chars, combined, remaining, draws, gp_outcome, result,
       passwords, raised, stdout, stderr, copied, exit_status >>

gp_locals == << sets, categories, password_chars, combined, remaining >>

main_io == << stdout, stderr, copied, exit_status >>

(* ----------------------------- build_charset --------------------------- *)

\* Mutant of Filtered: the filter keeps every character.
Filtered_KeepAll(s) ==
    s

\* ''.join(ch for ch in s if ch not in AMBIGUOUS)
Filtered(s) ==
    SelectSeq(s, LAMBDA ch : ch \notin AMBIGUOUS)

\* The dict returned by build_charset, as its items in insertion order.
build_charset(use_lower, use_upper, use_digits, use_symbols, avoid_ambiguous) ==
    LET chosen ==
            (IF use_lower THEN << [k |-> "lower", s |-> POOLS.lower] >> ELSE << >>)
            \o (IF use_upper THEN << [k |-> "upper", s |-> POOLS.upper] >> ELSE << >>)
            \o (IF use_digits THEN << [k |-> "digits", s |-> POOLS.digits] >> ELSE << >>)
            \o (IF use_symbols THEN << [k |-> "symbols", s |-> POOLS.symbols] >> ELSE << >>)
    IN  IF avoid_ambiguous
        THEN [i \in 1..Len(chosen) |->
                 [k |-> chosen[i].k, s |-> Filtered(chosen[i].s)]]
        ELSE chosen

\* list(sets.keys())
Keys(d) ==
    [i \in 1..Len(d) |-> d[i].k]

\* ''.join(sets.values())
RECURSIVE JoinValues(_)
JoinValues(d) ==
    IF d = << >> THEN << >> ELSE Head(d).s \o JoinValues(Tail(d))

\* The characters of a sequence.
Chars(s) ==
    {s[i] : i \in 1..Len(s)}

\* Mutant of Shuffles: positions are sampled with replacement, so an element
\* may be repeated and another lost.
Shuffles_Resample(xs) ==
    {[i \in 1..Len(xs) |-> xs[f[i]]] : f \in [1..Len(xs) -> 1..Len(xs)]}

\* The rearrangements SystemRandom().shuffle can leave a list in.
Shuffles(xs) ==
    {[i \in 1..Len(xs) |-> xs[p[i]]] : p \in Permutations(1..Len(xs))}

(* ----------------------------- generate_password ----------------------- *)

\* An exception leaves generate_password: it propagates through
\* generate_many to the entry function.
Raise(exc) ==
    /\ gp_outcome' = exc
    /\ pc' = IF entry = "main" THEN "main_except" ELSE "done"
    /\ raised' = IF entry = "main" THEN raised ELSE exc

\* if length < 1: raise ValueError
GP_CheckLength ==
    /\ pc = "gp_length"
    /\ IF kwargs.length < 1
       THEN Raise("ValueError")
       ELSE /\ pc' = "gp_build"
            /\ UNCHANGED << gp_outcome, raised >>
    /\ UNCHANGED << POOLS, entry, args, count, kwargs, gp_locals, draws,
                    result, passwords, main_io >>

\* Mutant of GP_BuildCharset: the "if not sets" test is missing.
GP_BuildCharset_NoEmptyCheck ==
    /\ pc = "gp_build"
    /\ sets' = build_charset(kwargs.use_lower, kwargs.use_upper,
                             kwargs.use_digits, kwargs.use_symbols,
                             kwargs.avoid_ambiguous)
    /\ pc' = "gp_categories"
    /\ UNCHANGED << POOLS, entry, args, count, kwargs, categories,
                    password_chars, combined, remaining, draws, gp_outcome,
                    result, passwords, raised, main_io >>

\* sets = build_charset(...); if not sets: raise ValueError
GP_BuildCharset ==
    /\ pc = "gp_build"
    /\ sets' = build_charset(kwargs.use_lower, kwargs.use_upper,
                             kwargs.use_digits, kwargs.use_symbols,
                             kwargs.avoid_ambiguous)
    /\ IF sets' = << >>
       THEN Raise("ValueError")
       ELSE /\ pc' = "gp_categories"
            /\ UNCHANGED << gp_outcome, raised >>
    /\ UNCHANGED << POOLS, entry, args, count, kwargs, categories,
                    password_chars, combined, remaining, draws, result,
                    passwords, main_io >>

\* Mutant of GP_CheckCategories: the comparison is off by one.
GP_CheckCategories_OffByOne ==
    /\ pc = "gp_categories"
    /\ categories' = Keys(sets)
    /\ IF kwargs.length < Len(categories') - 1
       THEN Raise("ValueError")
       ELSE /\ pc' = "gp_guaranteed"
            /\ UNCHANGED << gp_outcome, raised >>
    /\ UNCHANGED << POOLS, entry, args, count, kwargs, sets, password_chars,
                    combined, remaining, draws, result, passwords, main_io >>

\* Mutant of GP_CheckCategories: the test is made after the first
\* guaranteed character has been drawn.
GP_CheckCategories_AfterDraw ==
    /\ pc = "gp_categories"
    /\ categories' = Keys(sets)
    /\ \E ch \in Chars(sets[1].s) : password_chars' = << ch >>
    /\ draws' = draws + 1
    /\ IF kwargs.length < Len(categories')
       THEN Raise("ValueError")
       ELSE /\ pc' = "gp_guaranteed"
            /\ UNCHANGED << gp_outcome, raised >>
    /\ UNCHANGED << POOLS, entry, args, count, kwargs, sets, combined,
                    remaining, result, passwords, main_io >>

\* categories = list(sets.keys()); if length < len(categories): raise
GP_CheckCategories ==
    /\ pc = "gp_categories"
    /\ categories' = Keys(sets)
    /\ IF kwargs.length < Len(categories')
       THEN Raise("ValueError")
       ELSE /\ pc' = "gp_guaranteed"
            /\ UNCHANGED << gp_outcome, raised >>
    /\ UNCHANGED << POOLS, entry, args, count, kwargs, sets, password_chars,
                    combined, remaining, draws, result, passwords, main_io >>

\* Mutant of GP_DrawGuaranteed: the character is drawn from all the pools
\* together instead of the category's own pool.
GP_DrawGuaranteed_FromCombined ==
    /\ pc = "gp_guaranteed"
    /\ Len(password_chars) < Len(categories)
    /\ \E ch \in Chars(JoinValues(sets)) :
          password_chars' = Append(password_chars, ch)
    /\ draws' = draws + 1
    /\ UNCHANGED << POOLS, entry, args, count, kwargs, pc, sets, categories,
                    combined, remaining, gp_outcome, result, passwords,
                    raised, main_io >>

\* One iteration of [secrets.choice(sets[cat]) for cat in categories];
\* secrets.choice raises IndexError on an empty sequence.
GP_DrawGuaranteed ==
    /\ pc = "gp_guaranteed"
    /\ Len(password_chars) < Len(categories)
    /\ LET pool == sets[Len(password_chars) + 1].s
       IN  IF pool = << >>
           THEN /\ Raise("IndexError")
                /\ UNCHANGED << password_chars, draws >>
           ELSE /\ \E ch \in Chars(pool) :
                       password_chars' = Append(password_chars, ch)
                /\ draws' = draws + 1
                /\ UNCHANGED << pc, gp_outcome, raised >>
    /\ UNCHANGED << POOLS, entry, args, count, kwargs, sets, categories,
                    combined, remaining, result, passwords, main_io >>

\* Mutant of GP_Combine: remaining is one too large.
GP_Combine_OffByOne ==
    /\ pc = "gp_guaranteed"
    /\ Len(password_chars) = Len(categories)
    /\ combined' = JoinValues(sets)
    /\ remaining' = kwargs.length - Len(password_chars) + 1
    /\ pc' = "gp_filler"
    /\ UNCHANGED << POOLS, entry, args, count, kwargs, sets, categories,
                    password_chars, draws, gp_outcome, result, passwords,
                    raised, main_io >>

\* combined = ''.join(sets.values()); remaining = length - len(password_chars)
GP_Combine ==
    /\ pc = "gp_guaranteed"
    /\ Len(password_chars) = Len(categories)
    /\ combined' = JoinValues(sets)
    /\ remaining' = kwargs.length - Len(password_chars)
    /\ pc' = "gp_filler"
    /\ UNCHANGED << POOLS, entry, args, count, kwargs, sets, categories,
                    password_chars, draws, gp_outcome, result, passwords,
                    raised, main_io >>

\* One iteration of [secrets.choice(combined) for _ in range(remaining)].
GP_DrawFiller ==
    /\ pc = "gp_filler"
    /\ Len(password_chars) < Len(categories) + remaining
    /\ IF combined = << >>
       THEN /\ Raise("IndexError")
            /\ UNCHANGED << password_chars, draws >>
       ELSE /\ \E ch \in Chars(combined) :
                   password_chars' = Append(password_chars, ch)
            /\ draws' = draws + 1
            /\ UNCHANGED << pc, gp_outcome, raised >>
    /\ UNCHANGED << POOLS, entry, args, count, kwargs, sets, categories,
                    combined, remaining, result, passwords, main_io >>

\* secrets.SystemRandom().shuffle(password_chars); return ''.join(...)
\* Inside generate_many the returned string is appended to the list.
GP_ShuffleReturn ==
    /\ pc = "gp_filler"
    /\ Len(password_chars) >= Len(categories) + remaining
    /\ \E shuffled \in Shuffles(password_chars) :
          /\ password_chars' = shuffled
          /\ result' = shuffled
          /\ passwords' = IF entry = "generate_password"
                          THEN passwords
                          ELSE Append(passwords, shuffled)
    /\ draws' = draws + 1
    /\ gp_outcome' = "returned"
    /\ pc' = IF entry = "generate_password" THEN "done" ELSE "gm_loop"
    /\ UNCHANGED << POOLS, entry, args, count, kwargs, sets, categories,
                    combined, remaining, raised, main_io >>

(* ------------------------------ generate_many -------------------------- *)

\* Mutant of GM_Iterate: the loop runs once more than count.
GM_Iterate_OneMore ==
    /\ pc = "gm_loop"
    /\ IF Len(passwords) <= count
       THEN /\ pc' = "gp_length"
            /\ sets' = << >>
            /\ categories' = << >>
            /\ password_chars' = << >>
            /\ combined' = << >>
            /\ remaining' = 0
            /\ draws' = 0
            /\ gp_outcome' = "running"
       ELSE /\ pc' = IF entry = "main" THEN "main_print" ELSE "done"
            /\ UNCHANGED << gp_locals, draws, gp_outcome >>
    /\ UNCHANGED << POOLS, entry, args, count, kwargs, result, passwords,
                    raised, main_io >>

\* [generate_password(**kwargs) for _ in range(count)]: the next iteration
\* calls generate_password afresh, and the exhausted range returns the list.
GM_Iterate ==
    /\ pc = "gm_loop"
    /\ IF Len(passwords) < count
       THEN /\ pc' = "gp_length"
            /\ sets' = << >>
            /\ categories' = << >>
            /\ password_chars' = << >>
            /\ combined' = << >>
            /\ remaining' = 0
            /\ draws' = 0
            /\ gp_outcome' = "running"
       ELSE /\ pc' = IF entry = "main" THEN "main_print" ELSE "done"
            /\ UNCHANGED << gp_locals, draws, gp_outcome >>
    /\ UNCHANGED << POOLS, entry, args, count, kwargs, result, passwords,
                    raised, main_io >>

(* ---------------------------------- main ------------------------------- *)

\* params = dict(length=args.length, use_lower=not args.no_lower, ...)
Params(a) ==
    [length |-> a.length,
     use_lower |-> ~a.no_lower,
     use_upper |-> ~a.no_upper,
     use_digits |-> ~a.no_digits,
     use_symbols |-> ~a.no_symbols,
     avoid_ambiguous |-> a.avoid_ambiguous]

\* args = parser.parse_args(); params = dict(...);
\* generate_many(count=args.count, **params) is entered.
Main_Parse ==
    /\ pc = "main_parse"
    /\ kwargs' = Params(args)
    /\ count' = args.count
    /\ pc' = "gm_loop"
    /\ UNCHANGED << POOLS, entry, args, gp_locals, draws, gp_outcome,
                    result, passwords, raised, main_io >>

\* except ValueError as e: parser.error(str(e)) prints the message and
\* exits with status 2; any other exception is not caught, and the
\* interpreter prints a traceback and exits with status 1.
Main_Except ==
    /\ pc = "main_except"
    /\ IF gp_outcome = "ValueError"
       THEN /\ stderr' = "usage_error"
            /\ exit_status' = 2
            /\ UNCHANGED raised
       ELSE /\ stderr' = "traceback"
            /\ exit_status' = 1
            /\ raised' = gp_outcome
    /\ pc' = "done"
    /\ UNCHANGED << POOLS, entry, args, count, kwargs, gp_locals, draws,
                    gp_outcome, result, passwords, stdout, copied >>

\* for i, pw in enumerate(passwords, start=1): print(f"{i}: {pw}")
PrintedLines(pws) ==
    [i \in 1..Len(pws) |-> [kind |-> "password", index |-> i, text |-> pws[i]]]

\* The rest of main once generate_many has returned: the passwords are
\* printed; if args.copy and passwords, try_copy_to_clipboard(passwords[-1])
\* is called (it returns False when pyperclip is missing or fails) and a
\* status line is printed; main returns and the process exits with 0.
Main_PrintCopyExit ==
    /\ pc = "main_print"
    /\ IF args.copy /\ passwords # << >>
       THEN \E ok \in BOOLEAN :
               /\ copied' = IF ok THEN passwords[Len(passwords)] ELSE copied
               /\ stdout' = Append(PrintedLines(passwords),
                                   [kind |-> "status",
                                    index |-> 0,
                                    text |-> IF ok THEN << "ok" >>
                                             ELSE << "failed" >>])
       ELSE /\ stdout' = PrintedLines(passwords)
            /\ UNCHANGED copied
    /\ exit_status' = 0
    /\ pc' = "done"
    /\ UNCHANGED << POOLS, entry, args, count, kwargs, gp_locals, draws,
                    gp_outcome, result, passwords, raised, stderr >>

(* ------------------------------ specification -------------------------- *)

\* generate_password's declared defaults.
DefaultKwargs ==
    [length |-> 12, use_lower |-> TRUE, use_upper |-> TRUE,
     use_digits |-> TRUE, use_symbols |-> TRUE, avoid_ambiguous |-> FALSE]

\* The parser's declared defaults.
DefaultArgs ==
    [length |-> 12, count |-> 1, no_lower |-> FALSE, no_upper |-> FALSE,
     no_digits |-> FALSE, no_symbols |-> FALSE, avoid_ambiguous |-> FALSE,
     copy |-> FALSE]

KwargsUpTo(n) ==
    [length : -1..n, use_lower : BOOLEAN, use_upper : BOOLEAN,
     use_digits : BOOLEAN, use_symbols : BOOLEAN, avoid_ambiguous : BOOLEAN]

ArgsUpTo(n, c) ==
    [length : -1..n, count : -1..c, no_lower : BOOLEAN, no_upper : BOOLEAN,
     no_digits : BOOLEAN, no_symbols : BOOLEAN, avoid_ambiguous : BOOLEAN,
     copy : BOOLEAN]

\* The state in which one of the three entry points is entered.
InitWith(pools) ==
    /\ POOLS \in pools
    /\ entry \in {"generate_password", "generate_many", "main"}
    /\ \/ /\ entry = "generate_password"
          /\ args = DefaultArgs
          /\ count = 1
          /\ kwargs \in KwargsUpTo(MaxLength)
          /\ pc = "gp_length"
       \/ /\ entry = "generate_many"
          /\ args = DefaultArgs
          /\ count \in -1..MaxCount
          /\ kwargs \in KwargsUpTo(MaxBatchLength)
          /\ pc = "gm_loop"
       \/ /\ entry = "main"
          /\ args \in ArgsUpTo(MaxBatchLength, MaxCount)
          /\ count = 1
          /\ kwargs = DefaultKwargs
          /\ pc = "main_parse"
    /\ sets = << >>
    /\ categories = << >>
    /\ password_chars = << >>
    /\ combined = << >>
    /\ remaining = 0
    /\ draws = 0
    /\ gp_outcome = "running"
    /\ result = << >>
    /\ passwords = << >>
    /\ raised = "none"
    /\ stdout = << >>
    /\ stderr = "none"
    /\ copied = << >>
    /\ exit_status = -1

Init ==
    InitWith({ShippedPools})

InitCustom ==
    InitWith({ShippedPools, CustomPools})

Next ==
    \/ GP_CheckLength
    \/ GP_BuildCharset
    \/ GP_CheckCategories
    \/ GP_DrawGuaranteed
    \/ GP_Combine
    \/ GP_DrawFiller
    \/ GP_ShuffleReturn
    \/ GM_Iterate
    \/ Main_Parse
    \/ Main_Except
    \/ Main_PrintCopyExit

\* The program as shipped.
Spec ==
    Init /\ [][Next]_vars

\* The program with its category pools possibly customised.
SpecCustom ==
    InitCustom /\ [][Next]_vars

(* ------------------------- vocabulary of the claims -------------------- *)

CategoryNames == << "lower", "upper", "digits", "symbols" >>

\* The categories a call's arguments enable.
Enabled(kw) ==
    {c \in Chars(CategoryNames) :
        \/ c = "lower" /\ kw.use_lower
        \/ c = "upper" /\ kw.use_upper
        \/ c = "digits" /\ kw.use_digits
        \/ c = "symbols" /\ kw.use_symbols}

\* length >= 1, a category enabled, a slot for every enabled category.
Valid(kw) ==
    /\ kw.length >= 1
    /\ Enabled(kw) # {}
    /\ kw.length >= Cardinality(Enabled(kw))

\* The characters of category c that remain usable under kw.
FilteredPool(c, kw) ==
    IF kw.avoid_ambiguous THEN Chars(POOLS[c]) \ AMBIGUOUS ELSE Chars(POOLS[c])

CombinedPool(kw) ==
    UNION {FilteredPool(c, kw) : c \in Enabled(kw)}

Occurrences(s, ch) ==
    Cardinality({i \in 1..Len(s) : s[i] = ch})

IsPermutation(s, t) ==
    /\ Len(s) = Len(t)
    /\ \A ch \in Chars(s) \cup Chars(t) : Occurrences(s, ch) = Occurrences(t, ch)

\* A generate_password call has returned / has ended.
Returned == gp_outcome = "returned"

Ended == gp_outcome # "running"

\* generate_many has returned its list to its caller.
BatchReturned ==
    \/ entry = "generate_many" /\ pc = "done" /\ raised = "none"
    \/ entry = "main" /\ pc = "main_print"
    \/ entry = "main" /\ pc = "done" /\ exit_status = 0

(* --------------------------------- claims ------------------------------ *)

\* C1: for every valid configuration and every outcome of the draws and of
\* the shuffle, generate_password returns (it does not raise) a string of
\* exactly the requested length.
C1_LengthExact ==
    Valid(kwargs) =>
        /\ Ended => Returned
        /\ Returned => Len(result) = kwargs.length
        /\ \A i \in 1..Len(passwords) : Len(passwords[i]) = kwargs.length

C1_Witness ==
    /\ entry = "generate_password"
    /\ Returned
    /\ kwargs.length = 4
    /\ Len(categories) = 2
    /\ Len(result) = 4

\* C2: for every valid configuration the returned string holds at least one
\* character of the filtered pool of each enabled category.
C2_EachCategoryPresent ==
    (Returned /\ Valid(kwargs)) =>
        \A c \in Enabled(kwargs) :
            Chars(result) \cap FilteredPool(c, kwargs) # {}

C2_Witness ==
    /\ Returned
    /\ Cardinality(Enabled(kwargs)) = 4
    /\ kwargs.avoid_ambiguous
    /\ Len(result) = 4

\* C3: with avoid_ambiguous no character of the returned string, guaranteed
\* or filler, is in AMBIGUOUS.
C3_NoAmbiguous ==
    (Returned /\ kwargs.avoid_ambiguous) =>
        /\ Chars(result) \cap AMBIGUOUS = {}
        /\ \A i \in 1..Len(passwords) : Chars(passwords[i]) \cap AMBIGUOUS = {}

C3_Witness ==
    /\ Returned
    /\ kwargs.avoid_ambiguous
    /\ Len(categories) < kwargs.length
    /\ Len(categories) >= 2

\* C4: when length is smaller than the number of enabled categories,
\* generate_password draws nothing, returns no password and ends with
\* ValueError.
C4_TooShortRaises ==
    kwargs.length < Cardinality(Enabled(kwargs)) =>
        /\ gp_outcome \in {"running", "ValueError"}
        /\ result = << >> /\ passwords = << >> /\ draws = 0
        /\ (entry = "generate_password" /\ pc = "done") => raised = "ValueError"

C4_Witness ==
    /\ entry = "generate_password"
    /\ kwargs.length = 3
    /\ Cardinality(Enabled(kwargs)) = 4
    /\ categories # << >>
    /\ raised = "ValueError"

\* C5: with all four categories disabled generate_password ends with
\* ValueError, whatever length is.
C5_NoCategoryRaises ==
    Enabled(kwargs) = {} =>
        /\ gp_outcome \in {"running", "ValueError"}
        /\ result = << >> /\ passwords = << >> /\ draws = 0
        /\ (entry = "generate_password" /\ pc = "done") => raised = "ValueError"

C5_Witness ==
    /\ entry = "generate_password"
    /\ Enabled(kwargs) = {}
    /\ kwargs.length >= 1
    /\ raised = "ValueError"

\* C6: when the filtered pool of an enabled category is empty, the call ends
\* with the configuration error (ValueError) and before any draw.
C6_EmptyPoolIsConfigError ==
    (Ended /\ \E c \in Enabled(kwargs) : FilteredPool(c, kwargs) = {}) =>
        /\ gp_outcome = "ValueError"
        /\ draws = 0

\* C7: for a valid configuration and count >= 0, generate_many returns
\* without raising a list of exactly count passwords; count = 0 gives the
\* empty list.
C7_BatchHasCountPasswords ==
    (Valid(kwargs) /\ count >= 0 /\ entry # "generate_password") =>
        /\ raised = "none" /\ gp_outcome # "ValueError"
        /\ Len(passwords) <= count
        /\ BatchReturned =>
              /\ Len(passwords) = count
              /\ \A i \in 1..count : Len(passwords[i]) = kwargs.length

C7_Witness ==
    /\ entry = "generate_many"
    /\ BatchReturned
    /\ count = 2
    /\ Len(passwords) = 2
    /\ passwords[1] # passwords[2]

\* C8: main run with an invalid configuration ends, for every --count (here
\* every count >= 0, the counts generate_many accepts), with a non-zero exit
\* status and an error message and prints no password line.
C8_InvalidConfigExitsNonZero ==
    (entry = "main" /\ pc = "done" /\ ~Valid(Params(args))
                   /\ args.count >= 0) =>
        /\ exit_status > 0
        /\ stderr # "none"
        /\ \A i \in 1..Len(stdout) : stdout[i].kind # "password"

\* C9: a configuration error is raised before any call of the random
\* source, and never after an earlier call of the batch returned a password.
C9_ConfigErrorBeforeDraws ==
    gp_outcome = "ValueError" =>
        /\ draws = 0
        /\ password_chars = << >>
        /\ passwords = << >>

C9_Witness ==
    /\ entry = "generate_many"
    /\ count = 2
    /\ gp_outcome = "ValueError"
    /\ categories # << >>

\* C10: every character of the returned string is in the union of the
\* filtered pools of the enabled categories, and the shuffle only permutes
\* the list of the k guaranteed characters followed by the fillers.
C10_WithinCombinedPool ==
    [][(Valid(kwargs') /\ gp_outcome' = "returned") =>
          /\ Chars(result') \subseteq CombinedPool(kwargs')
          /\ (pc = "gp_filler" /\ pc' # "gp_filler") =>
                /\ IsPermutation(result', password_chars)
                /\ Len(password_chars) = kwargs.length
                /\ \A i \in 1..Len(categories) :
                      password_chars[i] \in FilteredPool(categories[i], kwargs)
                /\ \A i \in 1..Len(password_chars) :
                      password_chars[i] \in CombinedPool(kwargs)]_vars

C10_Witness ==
    /\ Returned
    /\ Cardinality(Enabled(kwargs)) = 3
    /\ kwargs.length = 4
    /\ result[1] \notin FilteredPool(categories[1], kwargs)

====
